---- MODULE Spec2Model ----
(***************************************************************************)
(* Model of src/dash.py: the records dashboard.                            *)
(*                                                                         *)
(*   load_data                 raw CSV rows  -> normalized DataFrame       *)
(*   render_filters            DataFrame, selection -> filtered DataFrame  *)
(*   best_per_class_and_lift   DataFrame -> one best row per (Class, Lift) *)
(*   render_table              picks the table shown on the first tab      *)
(*                                                                         *)
(* A string is a tuple of one-character strings, so that strip, lower,     *)
(* split, endswith and the regular-expression search are computed and not  *)
(* assumed.  A missing cell (pandas NaN) is the value NaN.  A number is an *)
(* integer count of tenths (82.5 is 825).  String columns follow pandas'   *)
(* object-dtype rules: a string method on a missing cell gives a missing   *)
(* cell, and fillna("") turns a float column that holds NaN into a column  *)
(* of floats and empty strings.                                            *)
(***************************************************************************)
EXTENDS Integers, Sequences, FiniteSets, TLC

\* ------------------------------------------------------------------
\* Bounds
\* ------------------------------------------------------------------
\* Rows in the raw CSV of the pipeline specification.
MaxRows == 2
\* Rows in the input of the reducer specification.
MaxIn == 3

\* ------------------------------------------------------------------
\* Strings
\* ------------------------------------------------------------------
\* A missing value: what read_csv gives for an empty cell.
NaN == <<"NaN">>

\* df.fillna("") replaces a missing value by the empty string.
Empty == <<>>

Digits == <<"0", "1", "2", "3", "4", "5", "6", "7", "8", "9">>

IsDigit(c) == \E i \in 1..10 : Digits[i] = c

DigitVal(c) == (CHOOSE i \in 1..10 : Digits[i] = c) - 1

\* Python's str.isspace for the characters of the model.
IsSpace(c) == c \in {" ", "\t", "\n"}

\* The upper-case letters of the model's alphabet and their lower case.
UpperChars ==
    <<"A", "B", "C", "D", "E", "F", "G", "H", "J", "L", "M", "O", "P", "R", "S", "T",
      "U", "X", "Y">>
LowerChars ==
    <<"a", "b", "c", "d", "e", "f", "g", "h", "j", "l", "m", "o", "p", "r", "s", "t",
      "u", "x", "y">>

\* str.lower on one character.
LowerChar(c) ==
    IF \E i \in 1..Len(UpperChars) : UpperChars[i] = c
    THEN LowerChars[CHOOSE i \in 1..Len(UpperChars) : UpperChars[i] = c]
    ELSE c

\* str.lower
Lower(s) == [i \in 1..Len(s) |-> LowerChar(s[i])]

\* str.strip: drops leading and trailing whitespace.
Strip(s) ==
    LET keep == {i \in 1..Len(s) : ~IsSpace(s[i])}
    IN  IF keep = {} THEN Empty
        ELSE LET lo == CHOOSE i \in keep : \A j \in keep : i <= j
                 hi == CHOOSE i \in keep : \A j \in keep : j <= i
             IN  SubSeq(s, lo, hi)

\* str.endswith
EndsWith(s, suf) ==
    /\ Len(s) >= Len(suf)
    /\ SubSeq(s, Len(s) - Len(suf) + 1, Len(s)) = suf

sDT == <<"D", "T">>

\* str.replace(r"DT$", "", regex=True): "$" matches at the end of the
\* string and also just before a final newline.
ReplaceDTEnd(s) ==
    IF EndsWith(s, sDT) THEN SubSeq(s, 1, Len(s) - 2)
    ELSE IF EndsWith(s, sDT \o <<"\n">>) THEN SubSeq(s, 1, Len(s) - 3) \o <<"\n">>
    ELSE s

\* str.split(): the maximal runs of non-whitespace characters, in order.
RECURSIVE SplitFrom(_, _, _)
SplitFrom(s, i, cur) ==
    IF i > Len(s) THEN (IF cur = Empty THEN <<>> ELSE <<cur>>)
    ELSE IF IsSpace(s[i])
         THEN (IF cur = Empty THEN <<>> ELSE <<cur>>) \o SplitFrom(s, i + 1, Empty)
         ELSE SplitFrom(s, i + 1, Append(cur, s[i]))

Split(s) == SplitFrom(s, 1, Empty)

\* One pattern character against one subject character: "." is the
\* regular-expression wildcard (any character but a newline), every other
\* character of the model's alphabet stands for itself.
ReCharMatches(p, c) == IF p = "." THEN c # "\n" ELSE p = c

\* re.search(pat, s) for a pattern of literals and ".": some window of s
\* matches the pattern character by character.
ReSearch(pat, s) ==
    \E k \in 0..(Len(s) - Len(pat)) :
        \A i \in 1..Len(pat) : ReCharMatches(pat[i], s[k + i])

\* Series.str.contains(term, na=False): regex=True is the default, so the
\* term is searched as a regular expression.
StrContains(s, term) == IF s = NaN THEN FALSE ELSE ReSearch(term, s)

\* ------------------------------------------------------------------
\* Numbers
\* ------------------------------------------------------------------
RECURSIVE DigitsValue(_)
DigitsValue(s) ==
    IF s = <<>> THEN 0
    ELSE 10 * DigitsValue(SubSeq(s, 1, Len(s) - 1)) + DigitVal(s[Len(s)])

\* pd.to_numeric(x, errors="coerce") on one string of digits with at most
\* one "." and at most one digit after it: [ok |-> TRUE, val |-> tenths];
\* any other string of the model is coerced to NaN, [ok |-> FALSE].
ToNumeric(s) ==
    LET dots == {i \in 1..Len(s) : s[i] = "."}
        allDigits == \A i \in 1..Len(s) : IsDigit(s[i]) \/ s[i] = "."
    IN  IF s = NaN \/ s = Empty \/ ~allDigits \/ Cardinality(dots) > 1
           \/ Len(s) = Cardinality(dots)
        THEN [ok |-> FALSE, val |-> 0]
        ELSE IF dots = {}
             THEN [ok |-> TRUE, val |-> 10 * DigitsValue(s)]
             ELSE LET d == CHOOSE i \in dots : TRUE
                      whole == SubSeq(s, 1, d - 1)
                      frac == SubSeq(s, d + 1, Len(s))
                  IN  [ok |-> TRUE,
                       val |-> 10 * DigitsValue(whole)
                               + (IF frac = <<>> THEN 0 ELSE DigitVal(frac[1]))]

\* ------------------------------------------------------------------
\* String order
\* ------------------------------------------------------------------
\* The characters of the model in code-point order: Python compares
\* strings character by character by code point.
Alphabet ==
    <<"\t", "\n", " ", "+", "-", ".",
      "0", "1", "2", "3", "4", "5", "6", "7", "8", "9",
      "A", "B", "C", "D", "E", "F", "G", "H", "J", "L", "M", "O", "P", "R", "S", "T",
      "U", "X", "Y",
      "a", "b", "c", "d", "e", "f", "g", "h", "i", "j", "k", "l", "m", "n", "o", "p",
      "q", "r", "s", "t", "u", "w", "x", "y">>

Code(c) == CHOOSE i \in 1..Len(Alphabet) : Alphabet[i] = c

\* a < b for two strings.
StrLess(a, b) ==
    \E k \in 1..(Len(b)) :
        /\ k <= Len(a) + 1
        /\ \A i \in 1..(k - 1) : a[i] = b[i]
        /\ (k = Len(a) + 1 \/ Code(a[k]) < Code(b[k]))

\* ------------------------------------------------------------------
\* Constants of the program
\* ------------------------------------------------------------------
sSquat == <<"S", "q", "u", "a", "t">>
sBench == <<"B", "e", "n", "c", "h">>
sDeadlift == <<"D", "e", "a", "d", "l", "i", "f", "t">>
sTotal == <<"T", "o", "t", "a", "l">>

\* LIFT_MAP: the short codes and what each is replaced by.
LIFT_MAP(x) ==
    CASE x = <<"S">> -> sSquat
      [] x = <<"B">> -> sBench
      [] x = <<"D">> -> sDeadlift
      [] x = <<"T">> -> sTotal
      [] x = sTotal -> sTotal
      [] OTHER -> x

LIFT_ORDER == <<sSquat, sBench, sDeadlift, sTotal>>

INVALID_WEIGHT_CLASSES ==
    {<<"7", "3", "6">>, <<"7", "3", "7">>, <<"7", "3", "8">>, <<"7", "3", "9">>,
     <<"c", "e", "l", "l">>}

sDrugTested == <<"D", "r", "u", "g", " ", "T", "e", "s", "t", "e", "d">>
sUntested == <<"U", "n", "t", "e", "s", "t", "e", "d">>
sAll == <<"A", "l", "l">>
sMultiPly == <<"M", "u", "l", "t", "i", "-", "p", "l", "y">>
sBare == <<"B", "a", "r", "e">>
sEquipped == <<"E", "q", "u", "i", "p", "p", "e", "d">>
sRaw == <<"R", "a", "w">>

\* ------------------------------------------------------------------
\* load_data
\* ------------------------------------------------------------------
\* A Weight cell of the DataFrame: a float, a float NaN, or a string.
Float(v) == [kind |-> "float", val |-> v]
FloatNaN == [kind |-> "nan", val |-> 0]
StrWeight == [kind |-> "str", val |-> 0]

\* Line 28: keep the rows whose Full Name and Weight are both present.
HasNameAndWeight(row) == row.FullName # NaN /\ row.Weight # NaN

\* Line 29: pd.to_numeric(..., errors="coerce"): a weight that does not
\* parse becomes a float NaN; the row stays.
CoerceWeight(w) ==
    IF ToNumeric(w).ok THEN Float(ToNumeric(w).val) ELSE FloatNaN

\* CleanClass gone wrong: the class is not stripped before the check.
CleanClassNoStrip(c) == IF c = NaN THEN <<"n", "a", "n">> ELSE c

\* Line 30: astype(str) turns a missing class into the string "nan", then
\* str.strip.
CleanClass(c) == IF c = NaN THEN <<"n", "a", "n">> ELSE Strip(c)

\* Line 31: the rows whose class is not an invalid token.
ValidClass(c) == c \notin INVALID_WEIGHT_CLASSES

\* Line 32: Division.str.strip(); a missing division stays missing.
DivisionRaw(d) == IF d = NaN THEN NaN ELSE Strip(d)

\* Line 33: str.replace(r"DT$", "", regex=True)
DivisionBase(raw_) == IF raw_ = NaN THEN NaN ELSE ReplaceDTEnd(raw_)

\* Line 34: str.endswith("DT") is NaN on a missing value, and map() leaves
\* a key it does not hold as NaN.
TestingOf(raw_) ==
    IF raw_ = NaN THEN NaN
    ELSE IF EndsWith(raw_, sDT) THEN sDrugTested ELSE sUntested

\* Line 35: replace(LIFT_MAP); a missing lift stays missing.
LiftOf(l) == IF l = NaN THEN NaN ELSE LIFT_MAP(l)

\* Line 37: fillna("") on a string cell.
FillNa(x) == IF x = NaN THEN Empty ELSE x

\* Line 37: fillna("") on a Weight cell: the float NaN becomes "".
FillNaWeight(w) == IF w.kind = "nan" THEN StrWeight ELSE w

\* Lines 29-37 on one row that stays.
Normalize(row) ==
    LET draw == DivisionRaw(row.Division)
    IN  [FullName |-> FillNa(row.FullName),
         RecordName |-> FillNa(row.RecordName),
         Weight |-> FillNaWeight(CoerceWeight(row.Weight)),
         Class |-> CleanClass(row.Class),
         Division_raw |-> FillNa(draw),
         Division_base |-> FillNa(DivisionBase(draw)),
         Testing |-> FillNa(TestingOf(draw)),
         Lift |-> FillNa(LiftOf(row.Lift)),
         Equipment |-> FillNa(row.Equipment),
         Sex |-> FillNa(row.Sex),
         Location |-> FillNa(row.Location)]

RowKept(row) == HasNameAndWeight(row) /\ ValidClass(CleanClass(row.Class))

\* load_data: the rows that stay, normalized, in the order of the file.
load_data(rows) ==
    LET kept == SelectSeq(rows, RowKept)
    IN  [i \in 1..Len(kept) |-> Normalize(kept[i])]

\* ------------------------------------------------------------------
\* render_filters
\* ------------------------------------------------------------------
Range(s) == {s[i] : i \in 1..Len(s)}

\* Line 48: the label an equipment value is shown under.
EquipmentDisplay(e) ==
    IF e = sMultiPly THEN sEquipped ELSE IF e = sBare THEN sRaw ELSE e

\* Line 47: the equipment values of the frame (sorted in the code).
equipment_options(d) == {r.Equipment : r \in Range(d)}

\* Line 48: the labels of the equipment select box.
equipment_display(d) == {EquipmentDisplay(e) : e \in equipment_options(d)}

\* Line 49: dict(zip(equipment_display, equipment_options)): when two
\* values share a label, the later one in sorted order is the one kept.
equipment_map(d, label) ==
    LET vals == {e \in equipment_options(d) : EquipmentDisplay(e) = label}
    IN  CHOOSE e \in vals : \A o \in vals : o = e \/ StrLess(o, e)

\* Lines 51-54
default_state ==
    [sex |-> sAll, division |-> sAll, testing_status |-> sAll,
     equipment |-> sAll, weight_class |-> sAll, search |-> Empty]

\* Lines 63-67: what each select box offers for the frame d.
SexOptions(d) == {sAll} \cup {r.Sex : r \in Range(d)}
DivisionOptions(d) == {sAll} \cup {r.Division_base : r \in Range(d)}
TestingOptions == {sAll, sDrugTested, sUntested}
EquipmentOptions(d) == {sAll} \cup equipment_display(d)
WeightOptions(d) == {sAll} \cup {r.Class : r \in Range(d)}

\* Lines 79-85: one term against the seven searched columns of one row.
TermMatches(r, term) ==
    \/ StrContains(Lower(r.FullName), term)
    \/ StrContains(Lower(r.RecordName), term)
    \/ StrContains(Lower(r.Class), term)
    \/ StrContains(Lower(r.Division_base), term)
    \/ StrContains(Lower(r.Equipment), term)
    \/ StrContains(Lower(r.Testing), term)
    \/ StrContains(Lower(r.Location), term)

\* Lines 77-86: the frame is narrowed once per term.
RECURSIVE ApplyTerms(_, _)
ApplyTerms(rows, terms) ==
    IF terms = <<>> THEN rows
    ELSE LET T(r) == TermMatches(r, Head(terms))
         IN  ApplyTerms(SelectSeq(rows, T), Tail(terms))

\* Lines 91-92
BySex(rows, d, s) ==
    LET T(r) == r.Sex = s.sex
    IN  IF s.sex # sAll THEN SelectSeq(rows, T) ELSE rows

\* ByDivision gone wrong: the raw division is compared, suffix included.
ByDivisionRaw(rows, d, s) ==
    LET T(r) == r.Division_raw = s.division
    IN  IF s.division # sAll THEN SelectSeq(rows, T) ELSE rows

\* Lines 93-94
ByDivision(rows, d, s) ==
    LET T(r) == r.Division_base = s.division
    IN  IF s.division # sAll THEN SelectSeq(rows, T) ELSE rows

\* Lines 95-96
ByTesting(rows, d, s) ==
    LET T(r) == r.Testing = s.testing_status
    IN  IF s.testing_status # sAll THEN SelectSeq(rows, T) ELSE rows

\* Lines 97-98
ByEquipment(rows, d, s) ==
    LET e == equipment_map(d, s.equipment)
        T(r) == r.Equipment = e
    IN  IF s.equipment # sAll THEN SelectSeq(rows, T) ELSE rows

\* Lines 99-100
ByClass(rows, d, s) ==
    LET T(r) == r.Class = s.weight_class
    IN  IF s.weight_class # sAll THEN SelectSeq(rows, T) ELSE rows

\* SearchRows gone wrong: the sex filter is applied in search mode too.
SearchRowsThenSex(d, s) == BySex(ApplyTerms(d, Split(Lower(s.search))), d, s)

\* Lines 74-88: search mode.
SearchRows(d, s) == ApplyTerms(d, Split(Lower(s.search)))

\* Lines 90-102: structured mode, the five filters in the code's order.
StructuredRows(d, s) ==
    ByClass(ByEquipment(ByTesting(ByDivision(BySex(d, d, s), d, s), d, s), d, s), d, s)

\* Line 74: a non-empty search string is truthy.
SearchMode(s) == s.search # Empty

\* render_filters: the frame it returns for the frame d and selection s.
render_filters(d, s) ==
    IF SearchMode(s) THEN SearchRows(d, s) ELSE StructuredRows(d, s)

\* ------------------------------------------------------------------
\* best_per_class_and_lift
\* ------------------------------------------------------------------
\* The permutations of 1..n.
Perms(n) == {p \in [1..n -> 1..n] : \A i, j \in 1..n : i # j => p[i] # p[j]}

\* Sorting compares Weight cells: comparing a float with a string raises
\* TypeError.
SortRaises(rows) ==
    \E i, j \in 1..Len(rows) : rows[i].Weight.kind # rows[j].Weight.kind

\* WeightGE gone wrong: the sort ascending (ascending=True).
WeightLE(a, b) == a.val <= b.val

\* a is not lighter than b (cells of one kind).
WeightGE(a, b) == a.val >= b.val

\* Line 109: sort_values("Weight", ascending=False).  The sort is the
\* default kind="quicksort", which is not stable: rows of equal weight come
\* out in an order the library does not fix, so every descending
\* arrangement is an outcome.
SortByWeightDesc(rows) ==
    {[i \in 1..Len(rows) |-> rows[p[i]]] :
        p \in {q \in Perms(Len(rows)) :
                 \A i, j \in 1..Len(rows) :
                    i < j => WeightGE(rows[q[i]].Weight, rows[q[j]].Weight)}}

SameGroup(a, b) == a.Class = b.Class /\ a.Lift = b.Lift

\* Line 110: drop_duplicates(subset=["Class", "Lift"]) keeps the first row
\* of each (Class, Lift) pair.
IsFirstOfGroup(rows, i) == \A j \in 1..(i - 1) : ~SameGroup(rows[j], rows[i])

RECURSIVE DropDuplicatesFrom(_, _)
DropDuplicatesFrom(rows, i) ==
    IF i > Len(rows) THEN <<>>
    ELSE (IF IsFirstOfGroup(rows, i) THEN <<rows[i]>> ELSE <<>>)
         \o DropDuplicatesFrom(rows, i + 1)

DropDuplicates(rows) == DropDuplicatesFrom(rows, 1)

\* Line 112: _class_num = pd.to_numeric(Class, errors="coerce")
ClassNum(r) == ToNumeric(r.Class)

\* Line 113: _lift_order = LIFT_ORDER.index(x) if x in LIFT_ORDER else 99
LiftOrder(r) ==
    IF \E i \in 1..Len(LIFT_ORDER) : LIFT_ORDER[i] = r.Lift
    THEN (CHOOSE i \in 1..Len(LIFT_ORDER) : LIFT_ORDER[i] = r.Lift) - 1
    ELSE 99

\* Lines 111-115: the sort key ["_class_num", "Class", "_lift_order"] of a
\* row.
Key(r) == [num |-> ClassNum(r), class |-> r.Class, lift |-> LiftOrder(r)]

\* _class_num of key a sorts before that of key b; NaN sorts last.
ClassNumLess(a, b) == a.num.ok /\ (b.num.ok => a.num.val < b.num.val)

ClassNumEq(a, b) == a.num = b.num

\* KeyLess gone wrong: _lift_order is left out of the sort columns.
KeyLessNoLift(a, b) ==
    \/ ClassNumLess(a, b)
    \/ ClassNumEq(a, b) /\ StrLess(a.class, b.class)

\* The order of sort_values on the three columns, on keys.
KeyLess(a, b) ==
    \/ ClassNumLess(a, b)
    \/ ClassNumEq(a, b) /\ StrLess(a.class, b.class)
    \/ ClassNumEq(a, b) /\ a.class = b.class /\ a.lift < b.lift

\* Line 115: sort_values on several columns is a lexsort, which is stable:
\* a row goes behind every row placed before it whose key is not greater.
InsertByKey(sorted, r) ==
    LET k == Key(r)
        pos == Cardinality({i \in 1..Len(sorted) : ~KeyLess(k, Key(sorted[i]))})
    IN  SubSeq(sorted, 1, pos) \o <<r>> \o SubSeq(sorted, pos + 1, Len(sorted))

RECURSIVE SortByKeyFrom(_, _, _)
SortByKeyFrom(rows, i, sorted) ==
    IF i > Len(rows) THEN sorted
    ELSE SortByKeyFrom(rows, i + 1, InsertByKey(sorted, rows[i]))

SortByKey(rows) == SortByKeyFrom(rows, 1, <<>>)

\* best_per_class_and_lift: the frames it can return for the frame rows
\* (the helper columns of lines 112-113 are dropped again at line 116).
best_per_class_and_lift(rows) ==
    {SortByKey(DropDuplicates(s)) : s \in SortByWeightDesc(rows)}

\* ------------------------------------------------------------------
\* render_table
\* ------------------------------------------------------------------
\* Lines 147-149: float(x) on the string "" raises ValueError.
DisplayRaises(rows) == \E i \in 1..Len(rows) : rows[i].Weight.kind = "str"

\* Lines 123-125: the rows of the table: all matches in search mode, the
\* best rows otherwise.
table_data(rows, s) ==
    IF SearchMode(s) THEN {rows} ELSE best_per_class_and_lift(rows)

\* Lines 125-149: render_table raises when the sort or the display does.
TableRaises(rows, s) ==
    \/ ~SearchMode(s) /\ SortRaises(rows)
    \/ DisplayRaises(rows)

\* ------------------------------------------------------------------
\* Inputs
\* ------------------------------------------------------------------
\* Rows of the CSV as read_csv gives them: a cell is a string or missing.
RawRow1 ==
    [FullName |-> <<"A", "l">>,
     RecordName |-> <<"J", "r", "1", "1", "0">>,
     Weight |-> <<"2", "0", "0">>,
     Class |-> <<"1", "1", "0">>,
     Division |-> <<"J", "u", "n", "i", "o", "r">>,
     Lift |-> <<"S">>,
     Equipment |-> <<"B", "a", "r", "e">>,
     Sex |-> <<"M">>,
     Location |-> <<"L", "e", "e", "d", "s">>]

RawRow2 ==
    [FullName |-> <<"B", "o">>,
     RecordName |-> NaN,
     Weight |-> <<"2", "0", "5">>,
     Class |-> <<" ", "1", "1", "0", " ">>,
     Division |-> <<"J", "u", "n", "i", "o", "r", "D", "T">>,
     Lift |-> <<"S">>,
     Equipment |-> <<"R", "a", "w">>,
     Sex |-> <<"F">>,
     Location |-> <<"Y", "o", "r", "k">>]

RawRow3 ==
    [FullName |-> <<"C", "y">>,
     RecordName |-> NaN,
     Weight |-> <<"2", "o", "5">>,
     Class |-> <<"1", "0", "0">>,
     Division |-> <<" ", "O", "p", "e", "n", "s", "D", "T", " ">>,
     Lift |-> <<"B">>,
     Equipment |-> <<"M", "u", "l", "t", "i", "-", "p", "l", "y">>,
     Sex |-> <<"M">>,
     Location |-> NaN]

RawRow4 ==
    [FullName |-> <<"G", "u">>,
     RecordName |-> NaN,
     Weight |-> <<"1", "0", "0">>,
     Class |-> NaN,
     Division |-> NaN,
     Lift |-> <<"X">>,
     Equipment |-> <<"B", "a", "r", "e">>,
     Sex |-> <<"M">>,
     Location |-> <<"L", "e", "e", "d", "s">>]

RawRow5 ==
    [FullName |-> NaN,
     RecordName |-> NaN,
     Weight |-> <<"2", "0", "0">>,
     Class |-> <<"1", "0", "0">>,
     Division |-> <<"O", "p", "e", "n", "s">>,
     Lift |-> <<"S">>,
     Equipment |-> <<"B", "a", "r", "e">>,
     Sex |-> <<"M">>,
     Location |-> <<"L", "e", "e", "d", "s">>]

RawRow6 ==
    [FullName |-> <<"D", "i">>,
     RecordName |-> NaN,
     Weight |-> NaN,
     Class |-> <<"1", "0", "0">>,
     Division |-> <<"O", "p", "e", "n", "s">>,
     Lift |-> <<"S">>,
     Equipment |-> <<"B", "a", "r", "e">>,
     Sex |-> <<"F">>,
     Location |-> <<"Y", "o", "r", "k">>]

RawRow7 ==
    [FullName |-> <<"E", "d">>,
     RecordName |-> NaN,
     Weight |-> <<"8", "2", ".", "5">>,
     Class |-> <<" ", "c", "e", "l", "l", " ">>,
     Division |-> <<"O", "p", "e", "n", "s">>,
     Lift |-> <<"T", "o", "t", "a", "l">>,
     Equipment |-> <<"B", "a", "r", "e">>,
     Sex |-> <<"F">>,
     Location |-> <<"Y", "o", "r", "k">>]

RawRows ==
    {RawRow1, RawRow2, RawRow3, RawRow4, RawRow5, RawRow6, RawRow7}

\* What the user can type in the search box.
Queries ==
    {Empty,
     <<"1", "1", "0", " ", "L", "e", "e", "d", "s">>,
     <<"1", ".", "0">>,
     <<" ">>}

\* Frames handed to best_per_class_and_lift on its own: rows with a
\* numeric Weight, as the record model has them.
Rec(name, class, lift, w) ==
    [FullName |-> name, Class |-> class, Lift |-> lift, Weight |-> Float(w)]

ReducerRows ==
    {Rec(<<"A", "l">>, <<"1", "0", "0">>, <<"S", "q", "u", "a", "t">>, 2000),
     Rec(<<"B", "o">>, <<"1", "0", "0">>, <<"S", "q", "u", "a", "t">>, 2050),
     Rec(<<"C", "y">>, <<"1", "0", "0">>, <<"S", "q", "u", "a", "t">>, 2050),
     Rec(<<"D", "i">>, <<"1", "0", "0">>, <<"P">>, 2050),
     Rec(<<"E", "d">>, <<"1", "0", "0">>, <<"X">>, 2050),
     Rec(<<"F", "y">>, <<"8", "2", ".", "5">>, <<"B", "e", "n", "c", "h">>, 1500),
     Rec(<<"G", "u">>, <<"9", "0", "+">>, <<"T", "o", "t", "a", "l">>, 3000),
     Rec(<<"H", "u">>, <<"1", "0", "0", ".", "0">>, <<"S", "q", "u", "a", "t">>, 2050)}

\* The sequences over S of length at most n.
SeqsUpTo(S, n) == UNION {[1..k -> S] : k \in 0..n}

\* ------------------------------------------------------------------
\* State
\* ------------------------------------------------------------------
VARIABLES
    pc,        \* where main() is: start, loaded, filtered, shown, raised
    raw,       \* the rows of the CSV file
    df,        \* load_data's frame
    sel,       \* st.session_state.filters
    filtered,  \* render_filters' frame
    table,     \* render_table's table_data on the first tab
    rpc,       \* the reducer on its own: input, once, twice
    rin,       \* the frame given to best_per_class_and_lift
    rout,      \* what it returned
    rout2      \* what it returned for rout

vars == <<pc, raw, df, sel, filtered, table, rpc, rin, rout, rout2>>

mainVars == <<pc, raw, df, sel, filtered, table>>
reducerVars == <<rpc, rin, rout, rout2>>

\* ------------------------------------------------------------------
\* main(): load_data, render_filters, render_table on the first tab
\* ------------------------------------------------------------------
Init ==
    /\ pc = "start"
    /\ raw \in SeqsUpTo(RawRows, MaxRows)
    /\ df = <<>>
    /\ sel = default_state
    /\ filtered = <<>>
    /\ table = <<>>
    /\ rpc = "off"
    /\ rin = <<>>
    /\ rout = <<>>
    /\ rout2 = <<>>

\* Line 222
LoadData ==
    /\ pc = "start"
    /\ df' = load_data(raw)
    /\ pc' = "loaded"
    /\ UNCHANGED <<raw, sel, filtered, table, reducerVars>>

\* Line 223: the user's choice in each widget, then the frame returned.
RenderFilters ==
    /\ pc = "loaded"
    /\ \E sx \in SexOptions(df), dv \in DivisionOptions(df), ts \in TestingOptions,
          eq \in EquipmentOptions(df), wc \in WeightOptions(df), q \in Queries :
          /\ sel' = [sex |-> sx, division |-> dv, testing_status |-> ts,
                     equipment |-> eq, weight_class |-> wc, search |-> q]
          /\ filtered' = render_filters(df, sel')
    /\ pc' = "filtered"
    /\ UNCHANGED <<raw, df, table, reducerVars>>

\* Lines 227-228: render_table(filtered, sel) returns or raises.
RenderTable ==
    /\ pc = "filtered"
    /\ \/ /\ ~TableRaises(filtered, sel)
          /\ \E t \in table_data(filtered, sel) : table' = t
          /\ pc' = "shown"
       \/ /\ TableRaises(filtered, sel)
          /\ table' = table
          /\ pc' = "raised"
    /\ UNCHANGED <<raw, df, sel, filtered, reducerVars>>

Next == LoadData \/ RenderFilters \/ RenderTable

Spec == Init /\ [][Next]_vars

\* ------------------------------------------------------------------
\* best_per_class_and_lift on its own, applied once and once more
\* ------------------------------------------------------------------
ReducerInit ==
    /\ pc = "off"
    /\ raw = <<>>
    /\ df = <<>>
    /\ sel = default_state
    /\ filtered = <<>>
    /\ table = <<>>
    /\ rpc = "input"
    /\ rin \in SeqsUpTo(ReducerRows, MaxIn)
    /\ rout = <<>>
    /\ rout2 = <<>>

Reduce ==
    /\ rpc = "input"
    /\ \E t \in best_per_class_and_lift(rin) : rout' = t
    /\ rpc' = "once"
    /\ UNCHANGED <<rin, rout2, mainVars>>

ReduceAgain ==
    /\ rpc = "once"
    /\ \E t \in best_per_class_and_lift(rout) : rout2' = t
    /\ rpc' = "twice"
    /\ UNCHANGED <<rin, rout, mainVars>>

ReducerNext == Reduce \/ ReduceAgain

ReducerSpec == ReducerInit /\ [][ReducerNext]_vars

\* ------------------------------------------------------------------
\* Properties of best_per_class_and_lift (ReducerSpec)
\* ------------------------------------------------------------------
Reduced == rpc \in {"once", "twice"}

\* The rows of frame rows in the (Class, Lift) group of row r.
GroupOf(rows, r) == {i \in 1..Len(rows) : SameGroup(rows[i], r)}

\* The heaviest weight among the rows of frame rows in r's group.
GroupMax(rows, r) ==
    CHOOSE w \in {rows[i].Weight.val : i \in GroupOf(rows, r)} :
        \A i \in GroupOf(rows, r) : rows[i].Weight.val <= w

\* C1: the frame returned holds exactly one row for every (Class, Lift)
\* pair of the input and none for any other pair, the row of a pair carries
\* the greatest Weight of the pair's input rows, and an empty input gives
\* an empty output.
C1_OneBestRowPerGroup ==
    Reduced =>
        /\ \A i \in 1..Len(rin) :
              /\ Cardinality(GroupOf(rout, rin[i])) = 1
              /\ \A k \in GroupOf(rout, rin[i]) :
                    rout[k].Weight.val = GroupMax(rin, rin[i])
        /\ \A k \in 1..Len(rout) : GroupOf(rin, rout[k]) # {}
        /\ (rin = <<>> => rout = <<>>)

\* C1 witness: (100, Squat) at 200 then at 205 gives the one row at 205.
C1_Witness ==
    /\ rpc = "once"
    /\ Len(rin) = 2
    /\ SameGroup(rin[1], rin[2])
    /\ rin[1].Weight.val = 2000
    /\ rin[2].Weight.val = 2050
    /\ Len(rout) = 1
    /\ rout[1].Weight.val = 2050

\* The first row of the input that is in r's group at the group's greatest
\* weight.
FirstAtMax(rows, r) ==
    LET at == {i \in GroupOf(rows, r) : rows[i].Weight.val = GroupMax(rows, r)}
    IN  rows[CHOOSE i \in at : \A j \in at : i <= j]

LiftRank(l) ==
    IF l = sSquat THEN 0
    ELSE IF l = sBench THEN 1
    ELSE IF l = sDeadlift THEN 2
    ELSE IF l = sTotal THEN 3
    ELSE 4

\* Row a may stand before row b: numeric classes ascending, a class that
\* does not parse after every numeric one, classes of equal number (or
\* both not parsing) as strings, and in one class by rank of lift.
MayPrecede(a, b) ==
    LET na == ToNumeric(a.Class)
        nb == ToNumeric(b.Class)
    IN  /\ (na.ok /\ nb.ok => na.val <= nb.val)
        /\ ~(~na.ok /\ nb.ok)
        /\ (na = nb => ~StrLess(b.Class, a.Class))
        /\ (a.Class = b.Class => LiftRank(a.Lift) <= LiftRank(b.Lift))

\* C3 as claimed: the order of the output is strict, no two rows of it
\* compare equal under the sort key.
C3_StrictTotalOrder ==
    Reduced =>
        \A i, j \in 1..Len(rout) :
            i < j => (MayPrecede(rout[i], rout[j]) /\ ~MayPrecede(rout[j], rout[i]))

\* C3 as amended: the output is in the order of the key, and two rows of it
\* compare equal only when they are of one class and both lifts are outside
\* Squat, Bench, Deadlift, Total.
C3_OrderedStrictOnCanonicalLifts ==
    Reduced =>
        \A i, j \in 1..Len(rout) :
            i < j =>
                /\ MayPrecede(rout[i], rout[j])
                /\ (MayPrecede(rout[j], rout[i]) =>
                        /\ rout[i].Class = rout[j].Class
                        /\ LiftRank(rout[i].Lift) = 4
                        /\ LiftRank(rout[j].Lift) = 4)

\* C3 witness: an output with two rows of one class whose lifts are both
\* outside the four, behind a canonical lift and before a class that does
\* not parse.
C3_Witness ==
    /\ rpc = "once"
    /\ \E i, j, k \in 1..Len(rout) :
          /\ i < j /\ j < k
          /\ rout[i].Class = rout[j].Class
          /\ LiftRank(rout[i].Lift) < 4
          /\ LiftRank(rout[j].Lift) = 4
          /\ ~ToNumeric(rout[k].Class).ok

Filtered == pc = "filtered"

\* C4: with a non-empty search string the frame returned is the one the
\* same search gives with every select box on "All": the five structured
\* fields change nothing.
C4_SearchIgnoresStructuredFilters ==
    (Filtered /\ SearchMode(sel)) =>
        filtered = render_filters(df, [default_state EXCEPT !.search = sel.search])

\* C4 witness: a search that returns rows which the chosen sex and
\* division, applied as filters, would have removed.
C4_Witness ==
    /\ Filtered
    /\ SearchMode(sel)
    /\ sel.sex # sAll
    /\ sel.division # sAll
    /\ filtered # <<>>
    /\ StructuredRows(filtered, sel) = <<>>

\* t occurs in s as a plain substring.
IsSubstring(t, s) == \E k \in 0..(Len(s) - Len(t)) : SubSeq(s, k + 1, k + Len(t)) = t

\* The seven searched columns of a row.
SearchedFields(r) ==
    {r.FullName, r.RecordName, r.Class, r.Division_base, r.Equipment, r.Testing,
     r.Location}

\* Every term of the lower-cased query is a substring of some searched
\* column, lower-cased.
MatchesEveryTerm(r, query) ==
    \A term \in Range(Split(Lower(query))) :
        \E f \in SearchedFields(r) : IsSubstring(term, Lower(f))

\* C5: in search mode a row is returned exactly when every term of the
\* query is a case-insensitive substring of one of the seven columns.
C5_SearchIsSubstringMatch ==
    (Filtered /\ SearchMode(sel)) =>
        LET T(r) == MatchesEveryTerm(r, sel.search)
        IN  filtered = SelectSeq(df, T)

\* The k-th of the five structured filters.
FilterNo(k, rows, d, s) ==
    CASE k = 1 -> BySex(rows, d, s)
      [] k = 2 -> ByDivision(rows, d, s)
      [] k = 3 -> ByTesting(rows, d, s)
      [] k = 4 -> ByEquipment(rows, d, s)
      [] k = 5 -> ByClass(rows, d, s)

\* Every order of applying the filters of todo to rows ends in result.
RECURSIVE EveryOrderGives(_, _, _, _, _)
EveryOrderGives(rows, todo, d, s, result) ==
    IF todo = {} THEN rows = result
    ELSE \A k \in todo :
            EveryOrderGives(FilterNo(k, rows, d, s), todo \ {k}, d, s, result)

\* Row r equals the selection on every field not on "All"; e is the raw
\* equipment value the selected label stands for.
EqualsSelection(r, s, e) ==
    /\ (s.sex # sAll => r.Sex = s.sex)
    /\ (s.division # sAll => r.Division_base = s.division)
    /\ (s.testing_status # sAll => r.Testing = s.testing_status)
    /\ (s.equipment # sAll => r.Equipment = e)
    /\ (s.weight_class # sAll => r.Class = s.weight_class)

\* C6: with an empty search string the frame returned is exactly the rows
\* that equal the selection on every field not on "All", the equipment
\* label mapped back to a raw value shown under it, and the five filters
\* give the same frame in every order.
C6_StructuredFiltersConjunction ==
    (Filtered /\ ~SearchMode(sel)) =>
        /\ \E e \in {x \in equipment_options(df) \cup {sAll} :
                        IF sel.equipment = sAll THEN x = sAll
                        ELSE EquipmentDisplay(x) = sel.equipment} :
              LET T(r) == EqualsSelection(r, sel, e)
              IN  filtered = SelectSeq(df, T)
        /\ EveryOrderGives(df, 1..5, df, sel, filtered)

sOpens == <<"O", "p", "e", "n", "s">>

\* C6 witness: division "Opens" and equipment "All" on a frame with Opens
\* and other rows keeps the Opens rows, as many as the frame holds.
C6_Witness ==
    /\ Filtered
    /\ ~SearchMode(sel)
    /\ sel.division = sOpens
    /\ sel.equipment = sAll
    /\ sel.sex = sAll /\ sel.testing_status = sAll /\ sel.weight_class = sAll
    /\ \E i \in 1..Len(df) : df[i].Division_base # sOpens
    /\ filtered # <<>>
    /\ Len(filtered) = Cardinality({i \in 1..Len(df) : df[i].Division_base = sOpens})

\* ------------------------------------------------------------------
\* Properties of load_data (Spec)
\* ------------------------------------------------------------------
Loaded == pc # "start"

\* C7: every row of load_data's frame has a non-empty Full Name and a
\* numeric Weight.
C7_NameAndNumericWeight ==
    Loaded =>
        \A i \in 1..Len(df) :
            df[i].FullName # Empty /\ df[i].Weight.kind = "float"

\* C8: no row whose trimmed class is an invalid token is in load_data's
\* frame, in render_filters' frame or in the table made from it.
C8_NoInvalidClass ==
    \A rows \in {df, filtered, table} :
        \A i \in 1..Len(rows) : Strip(rows[i].Class) \notin INVALID_WEIGHT_CLASSES

\* C8 witness: the file holds a row of an invalid class beside a valid
\* row, and a table has been made.
C8_Witness ==
    /\ pc = "shown"
    /\ table # <<>>
    /\ \E i \in 1..Len(raw) :
          raw[i].Class # NaN /\ Strip(raw[i].Class) \in INVALID_WEIGHT_CLASSES

\* C10: Testing is "Drug Tested" when Division_raw ends with "DT" and
\* "Untested" when it does not, and Division_base followed by "DT" (when
\* Drug Tested) or by nothing is Division_raw.
C10_TestingFromSuffix ==
    Loaded =>
        \A i \in 1..Len(df) :
            /\ df[i].Testing =
                  (IF EndsWith(df[i].Division_raw, sDT) THEN sDrugTested ELSE sUntested)
            /\ df[i].Division_base
                  \o (IF df[i].Testing = sDrugTested THEN sDT ELSE Empty)
               = df[i].Division_raw

====
